---- MODULE Spec2Model ----
(***************************************************************************)
(* Model of clippy's `needless_if` late lint pass                          *)
(* (clippy_lints/src/needless_if.rs).                                      *)
(*                                                                         *)
(* The HIR is a tree of expression nodes.  A node is a record              *)
(*   [kind, kids, tail]                                                    *)
(* with kind in {"Path","Call","Let","Block","If"}; `kids` are the         *)
(* sub-expressions in the order walk_expr visits them:                     *)
(*   If    : <<cond, then>> or <<cond, then, else>>                        *)
(*   Block : the statements' expressions, the last one being the tail      *)
(*           expression when `tail` is TRUE                                *)
(*   Call  : the arguments        Let : <<init>>        Path : <<>>        *)
(* The callee of a call and the pattern of a `let` are fixed names and     *)
(* are not nodes of their own.                                             *)
(* A node's hir_id is its path from the root (a sequence of kid indices),  *)
(* its span is a half-open range of tokens of the source text.             *)
(***************************************************************************)
EXTENDS Integers, Sequences, FiniteSets, TLC

\* ------------------------------------------------------------------ bounds
MaxNodes == 6      \* nodes of a tree handed to the lint pass
MaxVisitNodes == 5 \* nodes of a condition handed to is_any_if_let alone
MaxArgs == 2       \* arguments of a call
MaxStmts == 2      \* expressions of a block (statements and tail)

\* ------------------------------------------------------- expression nodes
Path == [kind |-> "Path", kids |-> <<>>, tail |-> FALSE]
NoExpr == [kind |-> "None", kids |-> <<>>, tail |-> FALSE]
ParseError == [kind |-> "Error", kids |-> <<>>, tail |-> FALSE]

MkCall(args) == [kind |-> "Call", kids |-> args, tail |-> FALSE]
MkLet(init) == [kind |-> "Let", kids |-> <<init>>, tail |-> FALSE]
MkBlock(exprs, hasTail) == [kind |-> "Block", kids |-> exprs, tail |-> hasTail]
MkIf(cond, then) == [kind |-> "If", kids |-> <<cond, then>>, tail |-> FALSE]
MkIfElse(cond, then, els) == [kind |-> "If", kids |-> <<cond, then, els>>, tail |-> FALSE]

\* The condition of an `if` has type bool: an `if` used as a condition has an
\* else-branch and a then-block with a tail expression.
IsValueExpr(e) ==
    e.kind = "If" => (Len(e.kids) = 3 /\ e.kids[2].tail)

RECURSIVE ExprsOfSize(_), Forest(_, _)

\* Sequences of k expressions with m nodes in total.
Forest(m, k) ==
    IF k = 0
    THEN (IF m = 0 THEN {<<>>} ELSE {})
    ELSE UNION {{<<e>> \o r : e \in ExprsOfSize(i), r \in Forest(m - i, k - 1)} :
                i \in 1..m}

\* Blocks with exactly n nodes.
BlocksOfSize(n) ==
    IF n < 1 THEN {}
    ELSE {MkBlock(s, FALSE) : s \in Forest(n - 1, 0)}
         \cup UNION {{MkBlock(s, t) : s \in Forest(n - 1, k), t \in BOOLEAN} :
                     k \in 1..MaxStmts}

\* Conditions with exactly n nodes.
CondsOfSize(n) == {c \in ExprsOfSize(n) : IsValueExpr(c)}

\* `if` expressions with exactly n nodes.
IfsOfSize(n) ==
    LET ifs == UNION {{MkIf(c, b) : c \in CondsOfSize(i), b \in BlocksOfSize(n - 1 - i)} :
                      i \in 1..(n - 2)}
        ifelses ==
            UNION {UNION {{MkIfElse(c, b, e) :
                             c \in CondsOfSize(i), b \in BlocksOfSize(j),
                             e \in {x \in ExprsOfSize(n - 1 - i - j) :
                                      x.kind \in {"Block", "If"}}} :
                          j \in 1..(n - 2 - i)} :
                   i \in 1..(n - 3)}
    IN ifs \cup ifelses

\* Expressions with exactly n nodes.
ExprsOfSize(n) ==
    IF n < 1 THEN {}
    ELSE LET paths == IF n = 1 THEN {Path} ELSE {}
             calls == UNION {{MkCall(a) : a \in Forest(n - 1, k)} : k \in 1..MaxArgs}
             lets == {MkLet(e) : e \in ExprsOfSize(n - 1)}
         IN paths \cup calls \cup lets \cup BlocksOfSize(n) \cup IfsOfSize(n)

ExprsUpTo(n) == UNION {ExprsOfSize(i) : i \in 1..n}
IfsUpTo(n) == UNION {IfsOfSize(i) : i \in 1..n}

\* ------------------------------------------------------------ source text
\* Source text is a sequence of tokens.
RECURSIVE Render(_), RenderArgs(_), RenderStmts(_, _)

RenderArgs(es) ==
    IF es = <<>> THEN <<>>
    ELSE IF Len(es) = 1 THEN Render(es[1])
    ELSE Render(es[1]) \o <<",">> \o RenderArgs(Tail(es))

RenderStmts(es, hasTail) ==
    IF es = <<>> THEN <<>>
    ELSE IF Len(es) = 1 /\ hasTail THEN Render(es[1])
    ELSE Render(es[1]) \o <<";">> \o RenderStmts(Tail(es), hasTail)

Render(e) ==
    CASE e.kind = "Path" -> <<"x">>
      [] e.kind = "Call" -> <<"f", "(">> \o RenderArgs(e.kids) \o <<")">>
      [] e.kind = "Let" -> <<"let", "p", "=">> \o Render(e.kids[1])
      [] e.kind = "Block" -> <<"{">> \o RenderStmts(e.kids, e.tail) \o <<"}">>
      [] e.kind = "If" ->
            <<"if">> \o Render(e.kids[1]) \o Render(e.kids[2])
            \o (IF Len(e.kids) = 3 THEN <<"else">> \o Render(e.kids[3]) ELSE <<>>)
      [] OTHER -> <<>>

TokAt(toks, i) == IF i \in 1..Len(toks) THEN toks[i] ELSE "EOF"

Fail == [ok |-> FALSE, e |-> ParseError, next |-> 0]

RECURSIVE ParseExpr(_, _), ParseArgs(_, _, _), ParseStmts(_, _, _)

\* Parses the arguments of a call from token i on, up to the closing ")".
ParseArgs(toks, i, acc) ==
    LET r == ParseExpr(toks, i) IN
    IF ~r.ok THEN Fail
    ELSE IF TokAt(toks, r.next) = ")"
         THEN [ok |-> TRUE, e |-> MkCall(Append(acc, r.e)), next |-> r.next + 1]
    ELSE IF TokAt(toks, r.next) = ","
         THEN ParseArgs(toks, r.next + 1, Append(acc, r.e))
    ELSE Fail

\* Parses the contents of a block from token i on, up to the closing "}".
ParseStmts(toks, i, acc) ==
    IF TokAt(toks, i) = "}"
    THEN [ok |-> TRUE, e |-> MkBlock(acc, FALSE), next |-> i + 1]
    ELSE IF TokAt(toks, i) = ";"
    THEN ParseStmts(toks, i + 1, acc)
    ELSE LET r == ParseExpr(toks, i) IN
         IF ~r.ok THEN Fail
         ELSE IF TokAt(toks, r.next) = ";"
              THEN ParseStmts(toks, r.next + 1, Append(acc, r.e))
         ELSE IF TokAt(toks, r.next) = "}"
              THEN [ok |-> TRUE, e |-> MkBlock(Append(acc, r.e), TRUE), next |-> r.next + 1]
         ELSE Fail

ParseExpr(toks, i) ==
    LET t == TokAt(toks, i) IN
    CASE t = "x" -> [ok |-> TRUE, e |-> Path, next |-> i + 1]
      [] t = "f" ->
            IF TokAt(toks, i + 1) # "(" THEN Fail
            ELSE IF TokAt(toks, i + 2) = ")"
                 THEN [ok |-> TRUE, e |-> MkCall(<<>>), next |-> i + 3]
            ELSE ParseArgs(toks, i + 2, <<>>)
      [] t = "let" ->
            IF TokAt(toks, i + 1) # "p" \/ TokAt(toks, i + 2) # "=" THEN Fail
            ELSE LET r == ParseExpr(toks, i + 3) IN
                 IF r.ok THEN [ok |-> TRUE, e |-> MkLet(r.e), next |-> r.next] ELSE Fail
      [] t = "{" -> ParseStmts(toks, i + 1, <<>>)
      [] t = "if" ->
            LET c == ParseExpr(toks, i + 1) IN
            IF ~c.ok \/ TokAt(toks, c.next) # "{" THEN Fail
            ELSE LET b == ParseStmts(toks, c.next + 1, <<>>) IN
                 IF ~b.ok THEN Fail
                 ELSE IF TokAt(toks, b.next) # "else"
                      THEN [ok |-> TRUE, e |-> MkIf(c.e, b.e), next |-> b.next]
                 ELSE IF TokAt(toks, b.next + 1) \notin {"if", "{"} THEN Fail
                 ELSE LET el == ParseExpr(toks, b.next + 1) IN
                      IF el.ok
                      THEN [ok |-> TRUE, e |-> MkIfElse(c.e, b.e, el.e), next |-> el.next]
                      ELSE Fail
      [] OTHER -> Fail

\* Parses a whole source text: one expression, possibly followed by ";".
ParseFile(toks) ==
    IF \A i \in 1..Len(toks) : toks[i] = ";" THEN NoExpr
    ELSE LET r == ParseExpr(toks, 1) IN
         IF r.ok /\ (\A i \in r.next..Len(toks) : toks[i] = ";") THEN r.e
         ELSE ParseError

\* ------------------------------------------------------- hir ids and spans
RECURSIVE NodeAt(_, _), PathsOf(_), SpanAt(_, _, _), SumLen(_, _)

\* The node with hir_id p.
NodeAt(e, p) ==
    IF p = <<>> THEN e
    ELSE IF Head(p) \in 1..Len(e.kids) THEN NodeAt(e.kids[Head(p)], Tail(p))
    ELSE NoExpr

\* The hir_ids of e and of every expression below it, in the order the
\* host's walker reaches them (pre-order).
PathsOf(e) ==
    LET RECURSIVE below(_)
        below(i) == IF i > Len(e.kids) THEN <<>>
                    ELSE [j \in 1..Len(PathsOf(e.kids[i])) |-> <<i>> \o PathsOf(e.kids[i])[j]]
                         \o below(i + 1)
    IN IF e.kind \in {"None", "Error"} THEN <<>> ELSE <<(<<>>)>> \o below(1)

\* Tokens of the first n kids of e, each followed by one separator token.
SumLen(e, n) == IF n = 0 THEN 0 ELSE SumLen(e, n - 1) + Len(Render(e.kids[n])) + 1

\* Tokens of e's text before its i-th kid.
KidOffset(e, i) ==
    CASE e.kind = "Call" -> 2 + SumLen(e, i - 1)
      [] e.kind = "Let" -> 3
      [] e.kind = "Block" -> 1 + SumLen(e, i - 1)
      [] e.kind = "If" ->
            IF i = 1 THEN 1
            ELSE IF i = 2 THEN 1 + Len(Render(e.kids[1]))
            ELSE 2 + Len(Render(e.kids[1])) + Len(Render(e.kids[2]))
      [] OTHER -> 0

SpanAt(e, p, base) ==
    IF p = <<>> THEN [lo |-> base, hi |-> base + Len(Render(e))]
    ELSE SpanAt(e.kids[Head(p)], Tail(p), base + KidOffset(e, Head(p)))

\* expr.span of the node with hir_id p in tree t.
SpanOf(t, p) == SpanAt(t, p, 0)

\* The text a span covers.
SourceText(src, span) == SubSeq(src, span.lo + 1, span.hi)


\* ------------------------------------------------------------------ state
VARIABLES
    tree,    \* the HIR the host walks
    src,     \* the source text the spans point into
    todo,    \* hir_ids the host's walker has still to hand to check_expr
    cur,     \* the latest check_expr call: the node, the host's answers for it
             \* and the diagnostics the call emitted
    diags,   \* the diagnostics emitted so far, in order
    applied, \* the diagnostic whose suggestion was applied to the source, if any
    pc,      \* position inside a check_expr call that is run step by step
    vstack,  \* IsAnyLetVisitor: the visit_expr calls walk_expr has still to make
    vflag,   \* IsAnyLetVisitor.0
    vtrace,  \* IsAnyLetVisitor: the hir_ids visit_expr was called on, in order
    vret     \* what is_any_if_let returned

vars == <<tree, src, todo, cur, diags, applied, pc, vstack, vflag, vtrace, vret>>

\* Where the host says a node comes from.
Origins == {"source", "local_macro", "external_macro", "proc_macro"}

\* The host's answers about one `if` node: where it comes from, whether the
\* snippet extractor recovers the exact text of its condition, and whether
\* its condition can have side effects.
Answers == [origin : Origins, exact : BOOLEAN, se : BOOLEAN]
NoAnswers == [origin |-> "source", exact |-> TRUE, se |-> FALSE]
AnswersFor(e) == IF e.kind = "If" THEN Answers ELSE {NoAnswers}

NoCall == [called |-> FALSE, id |-> <<>>, ans |-> NoAnswers, out |-> <<>>]
NoDiag == [lint |-> "none", span |-> [lo |-> 0, hi |-> 0], msg |-> "", help |-> "",
           sugg |-> <<>>, app |-> "Unspecified"]

\* ------------------------------------------------------------- the lint
\* block.stmts and block.expr of a block node.
BlockStmts(b) == IF b.tail THEN SubSeq(b.kids, 1, Len(b.kids) - 1) ELSE b.kids
BlockExpr(b) == IF b.tail THEN <<b.kids[Len(b.kids)]>> ELSE <<>>

\* Mutant: every macro expansion counts as external (span.from_expansion()).
in_external_macro_AnyExpansion(a) == a.origin # "source"

in_external_macro(a) == a.origin = "external_macro"
is_from_proc_macro(a) == a.origin = "proc_macro"
can_have_side_effects(a) == a.se

\* walk_expr: the sub-expressions of e, in visiting order.
walk_expr(e) == [i \in 1..Len(e.kids) |-> i]

\* Mutant: the visitor looks at the condition itself only (no walk_expr).
visit_expr_Shallow(e) == [found |-> e.kind = "Let", walk |-> <<>>]

\* Mutant: the visitor walks into a `let` too.
visit_expr_EntersLet(e) == [found |-> e.kind = "Let", walk |-> [i \in 1..Len(e.kids) |-> i]]

\* IsAnyLetVisitor::visit_expr on node e: whether it sets self.0, and the
\* kids it goes on to visit.
visit_expr(e) ==
    IF e.kind = "Let"
    THEN [found |-> TRUE, walk |-> <<>>]
    ELSE [found |-> FALSE, walk |-> walk_expr(e)]

RECURSIVE VisitFrom(_, _)
\* self.0 after visit_expr(e) has returned, when it was `flag` before.
VisitFrom(flag, e) ==
    LET v == visit_expr(e)
        RECURSIVE over(_, _)
        over(f, i) == IF i > Len(v.walk) THEN f
                      ELSE over(VisitFrom(f, e.kids[v.walk[i]]), i + 1)
    IN over(flag \/ v.found, 1)

is_any_if_let(e) == VisitFrom(FALSE, e)

\* Mutant: block.expr.is_none() is forgotten.
IsEmptyBlock_StmtsOnly(b) == b.kind = "Block" /\ BlockStmts(b) = <<>>

\* The first condition of check_expr: an `if` with an empty block, no else,
\* not in an external macro.
IsEmptyBlock(b) == b.kind = "Block" /\ BlockStmts(b) = <<>> /\ BlockExpr(b) = <<>>

\* Mutant: the in_external_macro test is forgotten.
StructuralMatch_NoMacroCheck(expr, a) ==
    /\ expr.kind = "If"
    /\ expr.kids[2].kind = "Block" /\ expr.kids[2].kids = <<>>
    /\ Len(expr.kids) = 2

StructuralMatch(expr, a) ==
    /\ expr.kind = "If"
    /\ IsEmptyBlock(expr.kids[2])
    /\ Len(expr.kids) = 2
    /\ ~in_external_macro(a)

\* Mutant: the else-if test is forgotten.
IsElseIf_Never(t, p) == FALSE

\* "Ignore `else if`": the parent is an `if` whose else is this very node.
IsElseIf(t, p) ==
    /\ p # <<>>
    /\ LET parent_id == SubSeq(p, 1, Len(p) - 1)
           parent == NodeAt(t, parent_id)
       IN /\ parent.kind = "If"
          /\ Len(parent.kids) = 3
          /\ parent_id \o <<3>> = p

\* Mutant: the snippet is taken from expr.span.
SnippetSpan_WholeIf(t, p) == SpanOf(t, p)

\* The span whose text becomes the suggestion: if_expr.span.
SnippetSpan(t, p) == SpanOf(t, p \o <<1>>)

\* Mutant: the diagnostic points at if_expr.span.
LintSpan_Cond(t, p) == SpanOf(t, p \o <<1>>)

\* The span the diagnostic points at: expr.span.
LintSpan(t, p) == SpanOf(t, p)

Placeholder == <<"{", "...", "}">>

snippet_with_applicability(s, span, exact, default, app) ==
    IF exact
    THEN [text |-> SourceText(s, span), app |-> app]
    ELSE [text |-> default,
          app |-> IF app = "MachineApplicable" THEN "HasPlaceholders" ELSE app]

\* Mutant: the statement terminator is forgotten.
Suggestion_NoTerminator(snippet, sideEffects) ==
    IF sideEffects THEN snippet ELSE <<>>

\* The sugg argument of span_lint_and_sugg.
Suggestion(snippet, sideEffects) ==
    IF sideEffects THEN snippet \o <<";">> ELSE <<>>

\* Mutant: the applicability the snippet extractor left is ignored.
SuggApplicability_Initial(initial, afterSnippet) == initial

\* The applicability argument of span_lint_and_sugg.
SuggApplicability(initial, afterSnippet) == afterSnippet

span_lint_and_sugg(lint, sp, msg, help, sugg, applicability) ==
    [lint |-> lint, span |-> sp, msg |-> msg, help |-> help,
     sugg |-> sugg, app |-> applicability]

\* The message and the help of the diagnostic.  The source writes the
\* keyword between backquotes, written here as apostrophes.
LintMsg == "this 'if' branch is empty"
LintHelp == "you can remove it"

\* Lines 63-78: building and emitting the diagnostic.
Emit(t, s, p, a) ==
    LET app0 == "MachineApplicable"
        sn == snippet_with_applicability(s, SnippetSpan(t, p), a.exact, Placeholder, app0)
    IN <<span_lint_and_sugg("NEEDLESS_IF", LintSpan(t, p),
                            LintMsg, LintHelp,
                            Suggestion(sn.text, can_have_side_effects(a)),
                            SuggApplicability(app0, sn.app))>>

\* The diagnostics one call of check_expr on node p emits.
Lint(t, s, p, a) ==
    LET expr == NodeAt(t, p) IN
    IF StructuralMatch(expr, a)
    THEN IF IsElseIf(t, p) THEN <<>>
         ELSE IF is_any_if_let(expr.kids[1]) \/ is_from_proc_macro(a) THEN <<>>
         ELSE Emit(t, s, p, a)
    ELSE <<>>

\* ------------------------------------------------------------ the walk
InitWalk(t) ==
    /\ tree = t
    /\ src = Render(t)
    /\ todo = PathsOf(t)
    /\ cur = NoCall
    /\ diags = <<>>
    /\ applied = NoDiag
    /\ pc = "walk"
    /\ vstack = <<>>
    /\ vflag = FALSE
    /\ vtrace = <<>>
    /\ vret = FALSE

Init == \E t \in IfsUpTo(MaxNodes) : InitWalk(t)

\* The host hands the next node to check_expr, which runs to completion.
check_expr ==
    /\ pc = "walk"
    /\ todo # <<>>
    /\ LET p == Head(todo) IN
       \E a \in AnswersFor(NodeAt(tree, p)) :
          LET out == Lint(tree, src, p, a) IN
          /\ cur' = [called |-> TRUE, id |-> p, ans |-> a, out |-> out]
          /\ diags' = diags \o out
    /\ todo' = Tail(todo)
    /\ UNCHANGED <<tree, src, applied, pc, vstack, vflag, vtrace, vret>>

Next == check_expr

Spec == Init /\ [][Next]_vars

\* ------------------------------------- check_expr with the visitor in steps
\* One call of check_expr on `if <cond> {}`, the traversal of
\* IsAnyLetVisitor run one visit_expr call at a time.
EmptyBlock == MkBlock(<<>>, FALSE)
CondsUpTo(n) == UNION {CondsOfSize(i) : i \in 1..n}

InitVisitor ==
    \E c \in CondsUpTo(MaxVisitNodes) :
       /\ tree = MkIf(c, EmptyBlock)
       /\ src = Render(tree)
       /\ todo = <<(<<>>)>>
       /\ cur = NoCall
       /\ diags = <<>>
       /\ applied = NoDiag
       /\ pc = "enter"
       /\ vstack = <<>>
       /\ vflag = FALSE
       /\ vtrace = <<>>
       /\ vret = FALSE

\* Lines 41-59: the structural match, the else-if check, and the call of
\* is_any_if_let, which builds IsAnyLetVisitor(false) and visits the condition.
Enter ==
    /\ pc = "enter"
    /\ \E o \in Origins :
          LET a == [NoAnswers EXCEPT !.origin = o] IN
          /\ cur' = [called |-> TRUE, id |-> Head(todo), ans |-> a, out |-> <<>>]
          /\ IF StructuralMatch(NodeAt(tree, Head(todo)), a) /\ ~IsElseIf(tree, Head(todo))
             THEN /\ pc' = "visit"
                  /\ vstack' = <<Head(todo) \o <<1>>>>
             ELSE /\ pc' = "done"
                  /\ vstack' = <<>>
    /\ todo' = Tail(todo)
    /\ vflag' = FALSE
    /\ UNCHANGED <<tree, src, diags, applied, vtrace, vret>>

\* One call of IsAnyLetVisitor::visit_expr.
Visit ==
    /\ pc = "visit"
    /\ vstack # <<>>
    /\ LET p == Head(vstack)
           v == visit_expr(NodeAt(tree, p))
       IN /\ vflag' = (vflag \/ v.found)
          /\ vtrace' = Append(vtrace, p)
          /\ vstack' = [i \in 1..Len(v.walk) |-> p \o <<v.walk[i]>>] \o Tail(vstack)
    /\ UNCHANGED <<tree, src, todo, cur, diags, applied, pc, vret>>

\* is_any_if_let returns v.0; lines 59-78 follow.
Return ==
    /\ pc = "visit"
    /\ vstack = <<>>
    /\ vret' = vflag
    /\ \E x \in BOOLEAN, s \in BOOLEAN :
          LET a == [cur.ans EXCEPT !.exact = x, !.se = s]
              out == IF vflag \/ is_from_proc_macro(a) THEN <<>>
                     ELSE Emit(tree, src, cur.id, a)
          IN /\ cur' = [cur EXCEPT !.ans = a, !.out = out]
             /\ diags' = diags \o out
    /\ pc' = "done"
    /\ UNCHANGED <<tree, src, todo, applied, vstack, vflag, vtrace>>

NextVisitor == Enter \/ Visit \/ Return

SpecVisitor == InitVisitor /\ [][NextVisitor]_vars

\* ----------------------------------------------- applying the suggestion
\* The host replaces the text of a diagnostic's span by its suggestion and
\* parses the result; the pass then runs over the new tree.
apply_fix ==
    /\ pc = "walk"
    /\ todo = <<>>
    /\ applied = NoDiag
    /\ \E i \in 1..Len(diags) :
          LET d == diags[i]
              fixed == SubSeq(src, 1, d.span.lo) \o d.sugg
                       \o SubSeq(src, d.span.hi + 1, Len(src))
              t2 == ParseFile(fixed)
          IN /\ applied' = d
             /\ src' = fixed
             /\ tree' = t2
             /\ todo' = PathsOf(t2)
    /\ cur' = NoCall
    /\ diags' = <<>>
    /\ UNCHANGED <<pc, vstack, vflag, vtrace, vret>>

NextFix == check_expr \/ apply_fix

SpecFix == Init /\ [][NextFix]_vars
\* ------------------------------------------------------------ the claims
\* The node of the latest check_expr call, and what the claims say about it,
\* stated on the tree and the text alone.
CurExpr == NodeAt(tree, cur.id)
CurIsIf == cur.called /\ CurExpr.kind = "If"
CurCond == CurExpr.kids[1]
CurThen == CurExpr.kids[2]
CurThenEmpty == Len(CurThen.kids) = 0
CurHasElse == Len(CurExpr.kids) = 3
CurIsElseArm ==
    /\ Len(cur.id) >= 1
    /\ cur.id[Len(cur.id)] = 3
    /\ NodeAt(tree, SubSeq(cur.id, 1, Len(cur.id) - 1)).kind = "If"

\* Some expression of e, e included, is a `let`.
RECURSIVE ContainsLet(_)
ContainsLet(e) ==
    e.kind = "Let" \/ \E i \in 1..Len(e.kids) : ContainsLet(e.kids[i])

\* The latest call is on an `if` that nothing but the host's answers can
\* keep from being linted.
CurIsPlainCandidate ==
    /\ CurIsIf
    /\ CurThenEmpty
    /\ ~CurHasElse
    /\ ~CurIsElseArm
    /\ ~ContainsLet(CurCond)

\* C1: a conditional whose then-block has a statement or a tail expression,
\* or that has an else-branch, gets no diagnostic from check_expr, whatever
\* its condition, its parent and the host's answers are.
C1_NonEmptyOrElseNotLinted ==
    (CurIsIf /\ (Len(CurThen.kids) >= 1 \/ CurHasElse)) => cur.out = <<>>

C1_Witness ==
    /\ CurIsIf
    /\ CurThen.kids = <<Path>>
    /\ CurThen.tail
    /\ ~CurHasElse
    /\ ~CurIsElseArm
    /\ ~ContainsLet(CurCond)
    /\ cur.ans.origin = "source"
    /\ cur.out = <<>>

\* C2: a conditional with an empty then-block and no else-branch, that is
\* not the else-arm of its parent, whose condition contains no `let`, and
\* for which neither the external-macro nor the procedural-macro query
\* answers true, gets exactly one diagnostic from one call of check_expr.
C2_CandidateLintedOnce ==
    (CurIsPlainCandidate /\ cur.ans.origin \notin {"external_macro", "proc_macro"})
        => Len(cur.out) = 1

C2_Witness ==
    /\ CurIsPlainCandidate
    /\ cur.id # <<>>
    /\ cur.ans.origin = "local_macro"
    /\ Len(cur.out) = 1
    /\ Len(diags) = 1

\* C3: the replacement text of an emitted diagnostic is empty when the host
\* says the condition is free of side effects, and otherwise the extracted
\* text of the condition followed by one ";".
C3_ReplacementText ==
    \A i \in 1..Len(cur.out) :
       cur.out[i].sugg =
          IF ~cur.ans.se THEN <<>>
          ELSE (IF cur.ans.exact THEN Render(CurCond) ELSE <<"{", "...", "}">>) \o <<";">>

C3_Witness ==
    /\ Len(cur.out) = 1
    /\ cur.ans.se
    /\ cur.ans.exact
    /\ CurCond = MkCall(<<Path>>)
    /\ cur.out[1].sugg = <<"f", "(", "x", ")", ";">>

\* `if c1 {} else if c2 {}`
IsElseIfChain(t) ==
    /\ t.kind = "If"
    /\ Len(t.kids) = 3
    /\ t.kids[2].kids = <<>>
    /\ t.kids[3].kind = "If"
    /\ Len(t.kids[3].kids) = 2
    /\ t.kids[3].kids[2].kids = <<>>

\* C4: an empty-bodied conditional without else that is the else-slot of its
\* parent conditional gets no diagnostic; walking `if c1 {} else if c2 {}`
\* gives no diagnostic for the outer conditional nor for its else-arm.
C4_ElseIfSkipped ==
    /\ (CurIsIf /\ CurThenEmpty /\ ~CurHasElse /\ CurIsElseArm) => cur.out = <<>>
    /\ IsElseIfChain(tree) =>
          \A i \in 1..Len(diags) :
             /\ diags[i].span # [lo |-> 0, hi |-> Len(src)]
             /\ diags[i].span # [lo |-> Len(src) - Len(Render(tree.kids[3])),
                                  hi |-> Len(src)]

C4_Witness ==
    /\ IsElseIfChain(tree)
    /\ cur.called
    /\ cur.id = <<3>>
    /\ cur.ans.origin = "source"
    /\ ~ContainsLet(CurCond)
    /\ diags = <<>>

\* C6 as stated: a conditional generated by a macro expansion gets no
\* diagnostic, be the macro external, defined in the analysed project, or
\* procedural.
C6_AnyMacroNotLinted ==
    (CurIsIf /\ cur.ans.origin # "source") => cur.out = <<>>

\* C6 amended: a conditional generated by the expansion of an external macro
\* or of a procedural macro gets no diagnostic, whatever its shape.
C6_ExternalOrProcMacroNotLinted ==
    (CurIsIf /\ cur.ans.origin \in {"external_macro", "proc_macro"}) => cur.out = <<>>

C6_Witness ==
    /\ CurIsPlainCandidate
    /\ cur.ans.origin = "external_macro"
    /\ cur.out = <<>>

\* C7: an emitted diagnostic is machine-applicable when the snippet
\* extractor recovered the condition's text, is not when it substituted the
\* placeholder, and is never machine-applicable with the placeholder in its
\* replacement text.
C7_Applicability ==
    \A i \in 1..Len(cur.out) :
       LET d == cur.out[i] IN
       /\ cur.ans.exact => d.app = "MachineApplicable"
       /\ ~cur.ans.exact => d.app # "MachineApplicable"
       /\ (\E k \in 1..Len(d.sugg) : d.sugg[k] = "...") => d.app # "MachineApplicable"

C7_Witness ==
    /\ Len(cur.out) = 1
    /\ ~cur.ans.exact
    /\ cur.ans.se
    /\ cur.out[1].sugg = <<"{", "...", "}", ";">>
    /\ cur.out[1].app = "HasPlaceholders"

\* The span is that of the whole `if` expression of the latest call.
SpanIsWholeIf(d) ==
    /\ SourceText(src, d.span) = Render(CurExpr)
    /\ src[d.span.lo + 1] = "if"
    /\ src[d.span.hi] = "}"

\* C9 as stated: an emitted diagnostic spans the whole `if` expression, has
\* the message "this conditional branch is empty" and the label "you can
\* remove it".
C9_SpanAndSpecMessage ==
    \A i \in 1..Len(cur.out) :
       /\ SpanIsWholeIf(cur.out[i])
       /\ cur.out[i].msg = "this conditional branch is empty"
       /\ cur.out[i].help = "you can remove it"

\* C9 amended: an emitted diagnostic spans the whole `if` expression, has
\* the message "this `if` branch is empty" (the keyword between backquotes)
\* and the label "you can remove it".
C9_SpanAndMessage ==
    \A i \in 1..Len(cur.out) :
       /\ SpanIsWholeIf(cur.out[i])
       /\ cur.out[i].msg = "this 'if' branch is empty"
       /\ cur.out[i].help = "you can remove it"

C9_Witness ==
    /\ Len(cur.out) = 1
    /\ cur.id # <<>>
    /\ ~cur.ans.se
    /\ cur.out[1].span.lo > 0
    /\ cur.out[1].span.hi - cur.out[1].span.lo = Len(Render(CurExpr))

\* ---- claims about the visitor, under SpecVisitor
VisitedLet(i) == NodeAt(tree, vtrace[i]).kind = "Let"
IsStrictPrefix(p, q) == Len(p) < Len(q) /\ SubSeq(q, 1, Len(p)) = p

\* C5: is_any_if_let is true exactly when the condition contains a `let` at
\* any depth, and check_expr then emits nothing.
C5_LetAtAnyDepth ==
    /\ is_any_if_let(tree.kids[1]) = ContainsLet(tree.kids[1])
    /\ (pc = "done" /\ vtrace # <<>>) => (vret = ContainsLet(tree.kids[1]))
    /\ (pc = "done" /\ ContainsLet(tree.kids[1])) => (cur.out = <<>> /\ diags = <<>>)

C5_Witness ==
    /\ pc = "done"
    /\ vret
    /\ cur.ans.origin = "source"
    /\ diags = <<>>
    /\ \E i \in 1..Len(vtrace) : VisitedLet(i) /\ Len(vtrace[i]) >= 4

\* C10 as stated: once the visitor has reached the first `let`, it visits no
\* further expression of the condition.
C10_ShortCircuit == [][vflag => vtrace' = vtrace]_vars

\* C10 amended: once the visitor has reached a `let`, it never visits a
\* sub-expression of that node, its flag stays set and is_any_if_let returns
\* true; the expressions not yet visited outside that node are still visited.
C10_LetNotEntered ==
    \A i \in 1..Len(vtrace) :
       VisitedLet(i) =>
          /\ vflag
          /\ pc = "done" => vret
          /\ \A j \in 1..Len(vtrace) : ~IsStrictPrefix(vtrace[i], vtrace[j])
          /\ \A k \in 1..Len(vstack) : ~IsStrictPrefix(vtrace[i], vstack[k])

C10_Witness ==
    /\ pc = "done"
    /\ vret
    /\ \E i \in 1..Len(vtrace) : \E j \in (i + 1)..Len(vtrace) :
          VisitedLet(i) /\ ~VisitedLet(j)

====
